---- MODULE Spec2Model ----
(***************************************************************************)
(* Model of mcp-bolna-voice-server/main.py: seven MCP tools that each map  *)
(* to one HTTP request against the Bolna API (make_bolna_request), served  *)
(* over an SSE transport with one session per stream connection.           *)
(*                                                                         *)
(* Values.  A JSON / Python value is a pair <<tag, payload>>.  Python None *)
(* is the very value response.json() yields for the JSON text "null", so   *)
(* both are PyNone.  httpx sends no body for json=None, so a request whose *)
(* json field is PyNone carries no body.                                   *)
(***************************************************************************)
EXTENDS Integers, Sequences, FiniteSets, TLC

VARIABLES
    sessState,   \* session -> "CONNECTING" | "OPEN" | "CLOSED"
    advertised,  \* session -> tool names listed to the client at the handshake
    inv,         \* sequence of invocations accepted by the message endpoint
    calls,       \* HTTP requests in flight: records [owner, req]
    stream,      \* session -> sequence of messages written to its event stream
    log,         \* number of diagnostic lines printed by make_bolna_request
    probe        \* one isolated tool call (used by SpecTools only)

vars == <<sessState, advertised, inv, calls, stream, log, probe>>

\* ------------------------------------------------------------------ bounds
MaxInv == 2
MaxAttempts == 3

\* ------------------------------------------------------------------ values
PyNone == <<"null", "">>
Missing == <<"missing", "">>
Malformed == <<"malformed", "">>
EmptyObject == <<"object", [k \in {} |-> 0]>>
PyStr(s) == <<"string", s>>

\* ------------------------------------------------------- module constants
API_KEY == "test-key"
BOLNA_API_URL == "https://api.bolna.ai/v2"
HEADERS ==
    [Authorization |-> "Bearer " \o API_KEY, ContentType |-> "application/json"]
REQUEST_TIMEOUT == 30

\* ------------------------------------------------------ make_bolna_request
\* The request make_bolna_request puts on the wire for (url, method, data).
\* Variant: the requests are sent with timeout=None.
HttpRequest_no_timeout(url, method, data) ==
    IF method = "POST"
    THEN [verb |-> "POST", url |-> url, json |-> data, headers |-> HEADERS, timeout |-> 0]
    ELSE IF method = "PUT"
    THEN [verb |-> "PUT", url |-> url, json |-> data, headers |-> HEADERS, timeout |-> 0]
    ELSE IF method = "DELETE"
    THEN [verb |-> "DELETE", url |-> url, json |-> PyNone, headers |-> HEADERS, timeout |-> 0]
    ELSE [verb |-> "GET", url |-> url, json |-> PyNone, headers |-> HEADERS, timeout |-> 0]

HttpRequest(url, method, data) ==
    IF method = "POST"
    THEN [verb |-> "POST", url |-> url, json |-> data, headers |-> HEADERS,
          timeout |-> REQUEST_TIMEOUT]
    ELSE IF method = "PUT"
    THEN [verb |-> "PUT", url |-> url, json |-> data, headers |-> HEADERS,
          timeout |-> REQUEST_TIMEOUT]
    ELSE IF method = "DELETE"
    THEN [verb |-> "DELETE", url |-> url, json |-> PyNone, headers |-> HEADERS,
          timeout |-> REQUEST_TIMEOUT]
    ELSE [verb |-> "GET", url |-> url, json |-> PyNone, headers |-> HEADERS,
          timeout |-> REQUEST_TIMEOUT]

\* Outcomes of the network call: a response (status, body text parsed or
\* Malformed), or a transport failure.
Statuses == {200, 201, 302, 404, 500}
Bodies ==
    { PyNone, EmptyObject, <<"object", [id |-> "abc", name |-> "X"]>>,
      <<"array", <<>>>>, <<"bool", FALSE>>, Malformed }
TimeoutOutcome == [kind |-> "timeout", status |-> 0, body |-> Malformed]
ConnectOutcome == [kind |-> "connect_error", status |-> 0, body |-> Malformed]
Responses == [kind : {"response"}, status : Statuses, body : Bodies]
Outcomes == Responses \cup {TimeoutOutcome, ConnectOutcome}

\* The exception the body of the try block raises, "none" when it returns.
RaisedInTry(outcome) ==
    IF outcome.kind = "timeout" THEN "TimeoutException"
    ELSE IF outcome.kind = "connect_error" THEN "ConnectError"
    ELSE IF outcome.status \div 100 # 2 THEN "HTTPStatusError"
    ELSE IF outcome.body = Malformed THEN "JSONDecodeError"
    ELSE "none"

\* Every exception the network call, raise_for_status or json() raises is a
\* subclass of Exception.
IsException(exc) ==
    exc \in {"HTTPStatusError", "TimeoutException", "ConnectError", "JSONDecodeError"}

\* What make_bolna_request does once the network call has ended with
\* `outcome`: ret is its return value, raised the exception that leaves it,
\* diag the lines it prints, returns whether it is over (it never loops:
\* both the try body and the handlers fall through to a return).
\* Variant: only httpx.HTTPStatusError is caught.
make_bolna_request_only_status_handler(outcome) ==
    LET exc == RaisedInTry(outcome) IN
    IF exc = "none"
    THEN [ret |-> outcome.body, raised |-> "none", diag |-> <<>>, returns |-> TRUE]
    ELSE IF exc = "HTTPStatusError"
    THEN [ret |-> PyNone, raised |-> "none",
          diag |-> <<"HTTP error occurred">>, returns |-> TRUE]
    ELSE [ret |-> PyNone, raised |-> exc, diag |-> <<>>, returns |-> TRUE]

\* Variant: the request is issued again after a failure.
make_bolna_request_retrying(outcome) ==
    LET exc == RaisedInTry(outcome) IN
    IF exc = "none"
    THEN [ret |-> outcome.body, raised |-> "none", diag |-> <<>>, returns |-> TRUE]
    ELSE [ret |-> PyNone, raised |-> "none",
          diag |-> <<"An error occurred">>, returns |-> FALSE]

make_bolna_request(outcome) ==
    LET exc == RaisedInTry(outcome) IN
    IF exc = "none"
    THEN [ret |-> outcome.body, raised |-> "none", diag |-> <<>>, returns |-> TRUE]
    ELSE IF exc = "HTTPStatusError"
    THEN [ret |-> PyNone, raised |-> "none",
          diag |-> <<"HTTP error occurred">>, returns |-> TRUE]
    ELSE IF IsException(exc)
    THEN [ret |-> PyNone, raised |-> "none",
          diag |-> <<"An error occurred">>, returns |-> TRUE]
    ELSE [ret |-> PyNone, raised |-> exc, diag |-> <<>>, returns |-> TRUE]

\* ------------------------------------------------------------------- tools
\* score_threshold is the float 0.9, written as text.
get_required_agent_config(agent_name, agent_type, agent_welcome_message) ==
    <<"object",
      [agent_config |->
        [agent_name |-> agent_name,
         agent_type |-> agent_type,
         agent_welcome_message |-> agent_welcome_message,
         tasks |-> <<
           [task_type |-> "conversation",
            tools_config |->
              [llm_agent |->
                [agent_type |-> "simple_llm_agent",
                 agent_flow_type |-> "streaming",
                 routes |->
                   [embedding_model |-> "snowflake/snowflake-arctic-embed-m",
                    routes |-> <<
                      [route_name |-> "general",
                       utterances |-> <<"How are you?", "What's up?">>,
                       response |-> "Hello! How can I assist you today?",
                       score_threshold |-> "0.9"] >>]]],
            toolchain |->
              [execution |-> "parallel", pipelines |-> << <<"llm_agent">> >>],
            task_config |->
              [hangup_after_silence |-> 10,
               incremental_delay |-> 400,
               number_of_words_for_interruption |-> 2]] >>]]>>

\* Each tool: the arguments it hands to make_bolna_request.
create_agent(agent_name, agent_type, agent_welcome_message) ==
    [url |-> BOLNA_API_URL \o "/agent", method |-> "POST",
     data |-> get_required_agent_config(agent_name, agent_type, agent_welcome_message)]

get_agents ==
    [url |-> BOLNA_API_URL \o "/agent/all", method |-> "GET", data |-> PyNone]

get_agent(agent_id) ==
    [url |-> BOLNA_API_URL \o "/agent/" \o agent_id, method |-> "GET", data |-> PyNone]

\* Variant: the caller's object is nested under "agent_config".
update_agent_wrapping(agent_id, agent_config) ==
    [url |-> BOLNA_API_URL \o "/agent/" \o agent_id, method |-> "PUT",
     data |-> <<"object", [agent_config |-> agent_config[2]]>>]

update_agent(agent_id, agent_config) ==
    [url |-> BOLNA_API_URL \o "/agent/" \o agent_id, method |-> "PUT",
     data |-> agent_config]

delete_agent(agent_id) ==
    [url |-> BOLNA_API_URL \o "/agent/" \o agent_id, method |-> "DELETE", data |-> PyNone]

execute_agent(agent_id, execution_data) ==
    [url |-> BOLNA_API_URL \o "/executions/" \o agent_id, method |-> "POST",
     data |-> execution_data]

get_execution_status(execution_id) ==
    [url |-> BOLNA_API_URL \o "/executions/status/" \o execution_id, method |-> "GET",
     data |-> PyNone]

\* delete_agent's return value, given what make_bolna_request returned.
\* Variant: `if not response` in place of `response is None`.
delete_agent_result_if_falsy(response) ==
    LET falsy == { PyNone, EmptyObject, <<"array", <<>>>>, <<"bool", FALSE>> } IN
    IF response \in falsy THEN <<"object", [status |-> "deleted"]>> ELSE response

delete_agent_result(response) ==
    IF response = PyNone THEN <<"object", [status |-> "deleted"]>> ELSE response

\* The functions registered with @mcp.tool().
\* Variant: get_execution_status lacks its @mcp.tool() decorator.
Catalog_without_status ==
    {"create_agent", "get_agents", "get_agent", "update_agent", "delete_agent",
     "execute_agent"}

Catalog ==
    {"create_agent", "get_agents", "get_agent", "update_agent", "delete_agent",
     "execute_agent", "get_execution_status"}

\* Parameters of each registered function, with their annotated types.
Params(tool) ==
    CASE tool = "create_agent" ->
           { <<"agent_name", "string">>, <<"agent_type", "string">>,
             <<"agent_welcome_message", "string">> }
      [] tool = "get_agents" -> {}
      [] tool = "get_agent" -> { <<"agent_id", "string">> }
      [] tool = "update_agent" ->
           { <<"agent_id", "string">>, <<"agent_config", "object">> }
      [] tool = "delete_agent" -> { <<"agent_id", "string">> }
      [] tool = "execute_agent" ->
           { <<"agent_id", "string">>, <<"execution_data", "object">> }
      [] tool = "get_execution_status" -> { <<"execution_id", "string">> }
      [] OTHER -> {}

\* What a tool returns to the protocol layer, given what make_bolna_request
\* returned: delete_agent coerces, the others return it as is.
tool_return(tool, response) ==
    IF tool = "delete_agent" THEN delete_agent_result(response) ELSE response

\* ------------------------------------------------------- protocol layer
\* (the mcp package: FastMCP's tool registry and argument validation)
ArgNames ==
    {"agent_name", "agent_type", "agent_welcome_message", "agent_id",
     "agent_config", "execution_data", "execution_id"}
NoArgs == [n \in ArgNames |-> Missing]

list_tools == Catalog

validate_arguments(tool, args) == \A p \in Params(tool) : args[p[1]][1] = p[2]

\* The registered function called with the validated arguments.
call_tool(tool, args) ==
    CASE tool = "create_agent" ->
           create_agent(args["agent_name"][2], args["agent_type"][2],
                        args["agent_welcome_message"][2])
      [] tool = "get_agents" -> get_agents
      [] tool = "get_agent" -> get_agent(args["agent_id"][2])
      [] tool = "update_agent" ->
           update_agent(args["agent_id"][2], args["agent_config"])
      [] tool = "delete_agent" -> delete_agent(args["agent_id"][2])
      [] tool = "execute_agent" ->
           execute_agent(args["agent_id"][2], args["execution_data"])
      [] tool = "get_execution_status" ->
           get_execution_status(args["execution_id"][2])

NoReq == [verb |-> "", url |-> "", json |-> PyNone, headers |-> HEADERS, timeout |-> 0]
NoOutcome == [kind |-> "none", status |-> 0, body |-> Malformed]
UnknownToolError == <<"error", "Unknown tool">>
InvalidArgumentsError == <<"error", "Invalid arguments">>
ToolRaisedError == <<"error", "Error executing tool">>

\* An invocation message up to the tool's first suspension point: rejected
\* with an error, or the HTTP request the tool issues.
\* Variant: the tool name is not checked against the registry.
dispatch_without_lookup(tool, args) ==
    IF tool \in Catalog /\ ~validate_arguments(tool, args)
    THEN [ok |-> FALSE, error |-> InvalidArgumentsError, req |-> NoReq]
    ELSE LET c == IF tool \in Catalog THEN call_tool(tool, args) ELSE get_agents
         IN  [ok |-> TRUE, error |-> PyNone, req |-> HttpRequest(c.url, c.method, c.data)]

dispatch(tool, args) ==
    IF tool \notin Catalog
    THEN [ok |-> FALSE, error |-> UnknownToolError, req |-> NoReq]
    ELSE IF ~validate_arguments(tool, args)
    THEN [ok |-> FALSE, error |-> InvalidArgumentsError, req |-> NoReq]
    ELSE LET c == call_tool(tool, args)
         IN  [ok |-> TRUE, error |-> PyNone, req |-> HttpRequest(c.url, c.method, c.data)]

\* The tool from the end of its network call to its return.
finish(tool, outcome) ==
    LET r == make_bolna_request(outcome) IN
    [ret |-> r.ret, raised |-> r.raised, diag |-> r.diag, returns |-> r.returns,
     kind |-> IF r.raised = "none" THEN "result" ELSE "error",
     result |-> IF r.raised = "none" THEN tool_return(tool, r.ret) ELSE ToolRaisedError]

CanTimeout(req) == req.timeout > 0

\* ------------------------------------------------------- session bridge
Sessions == {"s1", "s2"}

\* handle_sse: the streams connect_sse yields for this connection are the
\* ones handed to mcp_server.run, so a session's responses go to its own
\* event stream.
\* Variant: one write stream shared by all connections.
handle_sse_shared_stream(s) == [read_stream |-> s, write_stream |-> "s1"]

handle_sse(s) == [read_stream |-> s, write_stream |-> s]

\* One fresh httpx.AsyncClient and one request per make_bolna_request call.
\* A call in flight is the suspended tool coroutine: its invocation, the
\* tool and the request it awaits.
\* Variant: an identical request already in flight is reused.
IssueCall_deduplicating(inflight, k, tool, req) ==
    IF \E c \in inflight : c.req = req
    THEN inflight
    ELSE inflight \cup {[owner |-> k, tool |-> tool, req |-> req]}

IssueCall(inflight, k, tool, req) ==
    inflight \cup {[owner |-> k, tool |-> tool, req |-> req]}

\* Inputs of the bridge: every tool with well-typed arguments, a tool name
\* that is not registered, and a registered tool without its argument.
GoodArgs ==
    [n \in ArgNames |->
        IF n \in {"agent_config", "execution_data"}
        THEN <<"object", [recipient_phone_number |-> "+15550100"]>>
        ELSE PyStr("abc")]
TableNames ==
    {"create_agent", "get_agents", "get_agent", "update_agent", "delete_agent",
     "execute_agent", "get_execution_status"}
ValidInputs == {<<t, GoodArgs>> : t \in TableNames}
UnknownInputs == {<<"list_voices", GoodArgs>>}
InvalidInputs == {<<"get_agent", NoArgs>>}
BridgeInputs == ValidInputs \cup UnknownInputs \cup InvalidInputs
InputClass(i) ==
    IF i \in ValidInputs THEN "valid"
    ELSE IF i \in UnknownInputs THEN "unknown_tool"
    ELSE "invalid_arguments"

\* Stubbed upstream answers to the call of invocation k.
StubBody(k) == <<"object", [call |-> ToString(k)]>>
BridgeResponses(k) ==
    { [kind |-> "response", status |-> 200, body |-> StubBody(k)],
      [kind |-> "response", status |-> 200, body |-> PyNone],
      [kind |-> "response", status |-> 500, body |-> Malformed] }

IdleProbe ==
    [stage |-> "idle", tool |-> "", args |-> NoArgs, req |-> NoReq, ncalls |-> 0,
     outcome |-> NoOutcome, ret |-> PyNone, raised |-> "none", result |-> PyNone]

Init ==
    /\ sessState = [s \in Sessions |-> "CONNECTING"]
    /\ advertised = [s \in Sessions |-> {}]
    /\ inv = <<>>
    /\ calls = {}
    /\ stream = [s \in Sessions |-> <<>>]
    /\ log = 0
    /\ probe = IdleProbe

\* GET /sse: the session opens and the handshake lists the tools.
Connect(s) ==
    /\ sessState[s] = "CONNECTING"
    /\ sessState' = [sessState EXCEPT ![s] = "OPEN"]
    /\ advertised' = [advertised EXCEPT ![s] = list_tools]
    /\ UNCHANGED <<inv, calls, stream, log, probe>>

\* The client disconnects or the transport fails.  Calls in flight are
\* left alone.
\* Variant: closing the session cancels its calls in flight.
Disconnect_cancelling(s) ==
    /\ sessState[s] = "OPEN"
    /\ sessState' = [sessState EXCEPT ![s] = "CLOSED"]
    /\ calls' = {c \in calls : inv[c.owner].sess # s}
    /\ inv' = [k \in 1..Len(inv) |->
                IF inv[k].sess = s /\ inv[k].pc = "awaiting"
                THEN [inv[k] EXCEPT !.pc = "discarded"]
                ELSE inv[k]]
    /\ UNCHANGED <<advertised, stream, log, probe>>

Disconnect(s) ==
    /\ sessState[s] = "OPEN"
    /\ sessState' = [sessState EXCEPT ![s] = "CLOSED"]
    /\ UNCHANGED <<advertised, inv, calls, stream, log, probe>>

\* The JSON-RPC id of the next request of session s.
NextRid(s) == Cardinality({j \in 1..Len(inv) : inv[j].sess = s}) + 1

\* POST /messages/?session_id=s with a tools/call message: looked up and
\* validated, then the tool runs to its network call.  inv keeps, of each
\* invocation, its session, request id, input class, state, the number of
\* HTTP requests made for it and the outcome of its network call.
Invoke(s, i) ==
    /\ sessState[s] = "OPEN"
    /\ Len(inv) < MaxInv
    /\ LET k == Len(inv) + 1
           rid == NextRid(s)
           d == dispatch(i[1], i[2])
       IN  IF d.ok
           THEN /\ inv' = Append(inv, [sess |-> s, rid |-> rid, input |-> InputClass(i),
                                       pc |-> "awaiting", ncalls |-> 1,
                                       outcome |-> NoOutcome])
                /\ calls' = IssueCall(calls, k, i[1], d.req)
                /\ UNCHANGED stream
           ELSE /\ inv' = Append(inv, [sess |-> s, rid |-> rid, input |-> InputClass(i),
                                       pc |-> "rejected", ncalls |-> 0,
                                       outcome |-> NoOutcome])
                /\ stream' = [stream EXCEPT ![handle_sse(s).write_stream] =
                                Append(@, [rid |-> rid, kind |-> "error",
                                           body |-> d.error, from |-> k])]
                /\ UNCHANGED calls
    /\ UNCHANGED <<sessState, advertised, log, probe>>

\* The network call c ends with `outcome`: make_bolna_request and the tool
\* return, and the result is written to the session's stream, or dropped
\* when the session has closed.
Complete(c, outcome) ==
    LET k == c.owner
        f == finish(c.tool, outcome)
        s == inv[k].sess
    IN  /\ log' = log + Len(f.diag)
        /\ IF ~f.returns
           THEN /\ inv[k].ncalls < MaxAttempts
                /\ inv' = [inv EXCEPT ![k].ncalls = @ + 1]
                /\ UNCHANGED <<calls, stream>>
           ELSE /\ calls' = calls \ {c}
                /\ IF sessState[s] = "OPEN"
                   THEN /\ inv' = [inv EXCEPT ![k].pc = "responded",
                                              ![k].outcome = outcome]
                        /\ stream' = [stream EXCEPT ![handle_sse(s).write_stream] =
                                        Append(@, [rid |-> inv[k].rid, kind |-> f.kind,
                                                   body |-> f.result, from |-> k])]
                   ELSE /\ inv' = [inv EXCEPT ![k].pc = "discarded",
                                              ![k].outcome = outcome]
                        /\ UNCHANGED stream
        /\ UNCHANGED <<sessState, advertised, probe>>

\* The upstream answers the call of invocation k.
UpstreamResponds(k) ==
    \E c \in calls : \E o \in BridgeResponses(k) :
        /\ c.owner = k
        /\ Complete(c, o)

\* The 30-second timeout of the call of invocation k expires.
TimeoutFires(k) ==
    \E c \in calls :
        /\ c.owner = k
        /\ CanTimeout(c.req)
        /\ Complete(c, TimeoutOutcome)

Next ==
    \/ \E s \in Sessions : Connect(s)
    \/ \E s \in Sessions : Disconnect(s)
    \/ \E s \in Sessions : \E i \in BridgeInputs : Invoke(s, i)
    \/ \E k \in 1..MaxInv : UpstreamResponds(k)
    \/ \E k \in 1..MaxInv : TimeoutFires(k)

Spec == Init /\ [][Next]_vars

\* Scheduling: the event loop resumes a call whose timeout has expired.
InitLive ==
    /\ sessState = [s \in Sessions |-> IF s = "s1" THEN "CONNECTING" ELSE "CLOSED"]
    /\ advertised = [s \in Sessions |-> IF s = "s1" THEN {} ELSE list_tools]
    /\ inv = <<>>
    /\ calls = {}
    /\ stream = [s \in Sessions |-> <<>>]
    /\ log = 0
    /\ probe = IdleProbe

LiveSpec ==
    InitLive /\ [][Next]_vars /\ \A k \in 1..MaxInv : WF_vars(TimeoutFires(k))

\* ------------------------------------------------- one tool call, alone
\* Argument values a client may send for a parameter.
ArgValues ==
    { PyStr("abc"), PyStr("all"), EmptyObject,
      <<"object", [agent_name |-> "renamed", agent_type |-> "other"]>>, Missing }

\* Argument records that set the parameters of `tool` and nothing else.
ArgsFor(tool) ==
    LET names == {p[1] : p \in Params(tool)} IN
    { [n \in ArgNames |-> IF n \in names THEN f[n] ELSE Missing] :
        f \in [names -> ArgValues] }

ProbeInputs ==
    {<<t, a>> : t \in TableNames, a \in ArgsFor("get_agent")}
    \cup {<<"create_agent", a>> : a \in ArgsFor("create_agent")}
    \cup {<<"update_agent", a>> : a \in ArgsFor("update_agent")}
    \cup {<<"execute_agent", a>> : a \in ArgsFor("execute_agent")}
    \cup {<<"get_execution_status", a>> : a \in ArgsFor("get_execution_status")}
    \cup {<<"list_voices", a>> : a \in ArgsFor("get_agent")}

InitTools ==
    /\ sessState = [s \in Sessions |-> "CONNECTING"]
    /\ advertised = [s \in Sessions |-> {}]
    /\ inv = <<>>
    /\ calls = {}
    /\ stream = [s \in Sessions |-> <<>>]
    /\ log = 0
    /\ \E i \in ProbeInputs :
          probe = [IdleProbe EXCEPT !.stage = "input", !.tool = i[1], !.args = i[2]]

\* The tool is looked up, its arguments validated, and it runs to its
\* network call.
ProbeCall ==
    /\ probe.stage = "input"
    /\ LET d == dispatch(probe.tool, probe.args)
       IN  IF d.ok
           THEN probe' = [probe EXCEPT !.stage = "sent", !.req = d.req, !.ncalls = 1]
           ELSE probe' = [probe EXCEPT !.stage = "rejected", !.result = d.error]
    /\ UNCHANGED <<sessState, advertised, inv, calls, stream, log>>

\* The network call ends with `outcome`; make_bolna_request and the tool
\* return.
ProbeRespond(outcome) ==
    /\ probe.stage = "sent"
    /\ outcome = TimeoutOutcome => CanTimeout(probe.req)
    /\ LET f == finish(probe.tool, outcome)
       IN  /\ log' = log + Len(f.diag)
           /\ IF ~f.returns
              THEN /\ probe.ncalls < MaxAttempts
                   /\ probe' = [probe EXCEPT !.ncalls = @ + 1]
              ELSE probe' = [probe EXCEPT !.stage = "done", !.outcome = outcome,
                                          !.ret = f.ret, !.raised = f.raised,
                                          !.result = f.result]
    /\ UNCHANGED <<sessState, advertised, inv, calls, stream>>

NextTools ==
    \/ ProbeCall
    \/ \E o \in Outcomes : ProbeRespond(o)

SpecTools == InitTools /\ [][NextTools]_vars

\* ================================================================ claims
\* Messages written to any stream by the handler of invocation k.
MsgsFrom(k) ==
    {<<s, n>> \in Sessions \X (1..MaxInv) :
        n <= Len(stream[s]) /\ stream[s][n].from = k}

CallsOf(k) == {c \in calls : c.owner = k}

\* An upstream outcome that is a failure: no response, a status outside
\* 2xx, or a body that is not JSON.
UpstreamFailed(o) ==
    \/ o.kind \in {"timeout", "connect_error"}
    \/ o.status < 200
    \/ o.status > 299
    \/ o.body = Malformed

StatusDeleted == <<"object", [status |-> "deleted"]>>

\* C1: every invocation that names a catalog tool with valid arguments has
\* exactly one upstream call made for it: one request in flight of its own
\* while it waits, none once it is over, one request in total, and every
\* request in flight belongs to one waiting invocation.
C1_ExactlyOneUpstreamCall ==
    /\ \A k \in 1..Len(inv) :
          inv[k].input = "valid" =>
             /\ inv[k].pc \in {"awaiting", "responded", "discarded"}
             /\ inv[k].ncalls = 1
             /\ Cardinality(CallsOf(k)) = IF inv[k].pc = "awaiting" THEN 1 ELSE 0
             /\ inv[k].pc # "awaiting" => inv[k].outcome # NoOutcome
    /\ \A c \in calls : c.owner \in 1..Len(inv) /\ inv[c.owner].pc = "awaiting"

\* Two invocations with the same request are in flight at once, each with
\* its own call.
C1_Witness ==
    \E c1 \in calls : \E c2 \in calls :
        c1.owner # c2.owner /\ c1.req = c2.req /\ inv[c1.owner].sess # inv[c2.owner].sess

C3_UpstreamFailureAbsorbed ==
    /\ probe.stage \in {"sent", "done"} => probe.ncalls = 1
    /\ probe.stage = "done" =>
          /\ probe.raised = "none"
          /\ UpstreamFailed(probe.outcome) => probe.ret = PyNone /\ log = 1
          /\ ~UpstreamFailed(probe.outcome) => log = 0

\* The call timed out and was absorbed.
C3_Witness ==
    /\ probe.stage = "done"
    /\ probe.outcome = TimeoutOutcome
    /\ probe.ret = PyNone
    /\ probe.raised = "none"
    /\ log = 1

\* C4: for every tool, when the upstream answers invocation k with HTTP 200
\* and JSON body B, the session's stream holds a result for k's request id
\* whose body is B.
C4_PassThroughTagged ==
    \A k \in 1..Len(inv) :
        ( /\ inv[k].pc = "responded"
          /\ inv[k].outcome.kind = "response"
          /\ inv[k].outcome.status = 200
          /\ inv[k].outcome.body # Malformed )
        => \E n \in 1..Len(stream[inv[k].sess]) :
              LET m == stream[inv[k].sess][n] IN
              /\ m.from = k
              /\ m.rid = inv[k].rid
              /\ m.kind = "result"
              /\ m.body = inv[k].outcome.body

\* C5: every message on a session's stream was written for an invocation
\* posted to that session, and carries that invocation's request id.
C5_SessionIsolation ==
    \A s \in Sessions : \A n \in 1..Len(stream[s]) :
        /\ stream[s][n].from \in 1..Len(inv)
        /\ inv[stream[s][n].from].sess = s
        /\ stream[s][n].rid = inv[stream[s][n].from].rid

\* Both sessions had a call in flight and each got its own answer.
C5_Witness ==
    /\ Len(stream["s1"]) = 1
    /\ Len(stream["s2"]) = 1
    /\ stream["s1"][1].kind = "result"
    /\ stream["s2"][1].kind = "result"
    /\ stream["s1"][1].from = 2
    /\ stream["s2"][1].from = 1
    /\ stream["s1"][1].rid = stream["s2"][1].rid

\* C6: a step that accepts an invocation whose tool is not registered, or
\* whose arguments are invalid, makes no upstream call, appends one error
\* for that request to that session's stream and nothing else, and leaves
\* every session's state as it was (the session was and stays OPEN).
C6_RejectedBeforeDispatch ==
    [][ (Len(inv') = Len(inv) + 1 /\ inv'[Len(inv')].input # "valid") =>
          LET k == Len(inv')
              r == inv'[k]
          IN  /\ r.pc = "rejected"
              /\ r.ncalls = 0
              /\ calls' = calls
              /\ sessState' = sessState
              /\ sessState[r.sess] = "OPEN"
              /\ \E e \in {UnknownToolError, InvalidArgumentsError} :
                    stream' = [stream EXCEPT ![r.sess] =
                                 Append(@, [rid |-> r.rid, kind |-> "error",
                                            body |-> e, from |-> k])]
      ]_vars

\* An unknown tool was rejected, and a later invocation of the same session
\* was answered.
C6_Witness ==
    /\ Len(inv) = 2
    /\ inv[1].input = "unknown_tool"
    /\ inv[1].pc = "rejected"
    /\ inv[2].sess = inv[1].sess
    /\ inv[2].pc = "responded"
    /\ Len(stream[inv[1].sess]) = 2
    /\ calls = {}

\* C7: a session's state only moves CONNECTING -> OPEN -> CLOSED; closing
\* it cancels no call in flight; and once it is CLOSED it takes no new
\* invocation and nothing is written to its stream.
C7_ClosedIsFinal ==
    [][ \A s \in Sessions :
          /\ sessState'[s] # sessState[s] =>
                <<sessState[s], sessState'[s]>> \in
                    {<<"CONNECTING", "OPEN">>, <<"OPEN", "CLOSED">>}
          /\ (sessState[s] = "OPEN" /\ sessState'[s] = "CLOSED") => calls' = calls
          /\ sessState[s] = "CLOSED" =>
                /\ stream'[s] = stream[s]
                /\ \A k \in (Len(inv) + 1)..Len(inv') : inv'[k].sess # s
      ]_vars

\* A call outlived its session: it ran to its end and its result was
\* dropped.
C7_Witness ==
    \E k \in 1..Len(inv) :
        /\ inv[k].pc = "discarded"
        /\ sessState[inv[k].sess] = "CLOSED"
        /\ inv[k].outcome.status = 200
        /\ MsgsFrom(k) = {}

\* The names the bridge dispatches when given well-typed arguments.
AcceptedNames == {t \in {i[1] : i \in BridgeInputs} : dispatch(t, GoodArgs).ok}

\* C8 (as stated): the handshake lists exactly 6 tools, the names accepted
\* for dispatch.
C8_AdvertisesSixTools ==
    \A s \in Sessions :
        sessState[s] # "CONNECTING" =>
            /\ Cardinality(advertised[s]) = 6
            /\ advertised[s] = AcceptedNames

\* C8 (amended): the handshake lists exactly 7 tools, the names accepted
\* for dispatch.
C8_AdvertisesSevenTools ==
    \A s \in Sessions :
        sessState[s] # "CONNECTING" =>
            /\ Cardinality(advertised[s]) = 7
            /\ advertised[s] = AcceptedNames

\* A connected session has a get_execution_status call in flight.
C8_Witness ==
    \E c \in calls :
        /\ c.tool = "get_execution_status"
        /\ c.tool \in advertised[inv[c.owner].sess]
        /\ sessState[inv[c.owner].sess] = "OPEN"

\* The catalog table: verb and path of each tool.
TableVerb(tool) ==
    CASE tool \in {"create_agent", "execute_agent"} -> "POST"
      [] tool \in {"get_agents", "get_agent", "get_execution_status"} -> "GET"
      [] tool = "update_agent" -> "PUT"
      [] tool = "delete_agent" -> "DELETE"

TablePath(tool, args) ==
    CASE tool = "create_agent" -> "/agent"
      [] tool = "get_agents" -> "/agent/all"
      [] tool \in {"get_agent", "update_agent", "delete_agent"} ->
           "/agent/" \o args["agent_id"][2]
      [] tool = "execute_agent" -> "/executions/" \o args["agent_id"][2]
      [] tool = "get_execution_status" ->
           "/executions/status/" \o args["execution_id"][2]

TableBody(tool, args) ==
    CASE tool = "create_agent" ->
           get_required_agent_config(args["agent_name"][2], args["agent_type"][2],
                                     args["agent_welcome_message"][2])
      [] tool = "update_agent" -> args["agent_config"]
      [] tool = "execute_agent" -> args["execution_data"]
      [] OTHER -> PyNone

\* C9: the request a tool issues has the verb and URL of the catalog table;
\* update_agent and execute_agent send the caller's object as it is,
\* create_agent the default config of its three inputs, and GET and DELETE
\* requests no body.
C9_RequestMatchesTable ==
    probe.stage \in {"sent", "done"} =>
        /\ probe.req.verb = TableVerb(probe.tool)
        /\ probe.req.url = "https://api.bolna.ai/v2" \o TablePath(probe.tool, probe.args)
        /\ probe.req.json = TableBody(probe.tool, probe.args)
        /\ probe.req.verb \in {"GET", "DELETE"} => probe.req.json = PyNone
        /\ probe.tool = "create_agent" =>
              probe.req.json[2].agent_config.agent_name = probe.args["agent_name"][2]

\* update_agent sent the caller's non-empty object.
C9_Witness ==
    /\ probe.stage = "sent"
    /\ probe.tool = "update_agent"
    /\ probe.args["agent_id"] = PyStr("all")
    /\ probe.args["agent_config"] # EmptyObject
    /\ probe.req.verb = "PUT"
    /\ probe.req.json = probe.args["agent_config"]

\* C10: no invocation ever has two responses, and every accepted invocation
\* whose session stays OPEN eventually has one on that session's stream.
C10_EventuallyAnswered ==
    /\ [](\A k \in 1..Len(inv) : Cardinality(MsgsFrom(k)) <= 1)
    /\ \A k \in 1..MaxInv :
          (k <= Len(inv)) ~>
             (k <= Len(inv) /\ ( \/ sessState[inv[k].sess] = "CLOSED"
                                 \/ Cardinality(MsgsFrom(k)) = 1 ))

\* The second invocation of a session was answered while the first still
\* waits for its upstream call.
C10_Witness ==
    /\ Len(inv) = 2
    /\ inv[1].sess = inv[2].sess
    /\ inv[1].pc = "awaiting"
    /\ inv[2].pc = "responded"
    /\ Len(stream[inv[1].sess]) = 1
    /\ stream[inv[1].sess][1].rid = 2

====
